---- MODULE Spec2Model ----
(***************************************************************************)
(* psi (pkt.systems init): the PID 1 supervisor of src/psi.go.             *)
(*                                                                         *)
(* Spec      the Supervisor (runAsInit): its select loop, the reaper       *)
(*           goroutine, the kill timer, the kernel's process table and     *)
(*           the signals arriving at PID 1.                                *)
(* FairSpec  Spec with the fairness the Go scheduler and the runtime       *)
(*           timer give the supervisor's goroutines.                       *)
(* ReapSpec  reapUntilChildExit called on its own, as the repository's     *)
(*           TestReapUntilChildExit calls it: some forked children and a   *)
(*           target pid.                                                   *)
(***************************************************************************)
EXTENDS Integers, Sequences, FiniteSets

(* ---------------- bounds of the model ---------------- *)
\* descendants other than the managed child that may be re-parented to PID 1
MaxOrphans == 1
\* signals delivered to the supervisor during one run
MaxSignals == 2

\* pieces concatenated into a value of PSI_STOP_TIMEOUT
MaxTokens == 4

(* ---------------- program constants ---------------- *)
SIGHUP == 1
SIGINT == 2
SIGQUIT == 3
SIGKILL == 9
SIGUSR1 == 10
SIGUSR2 == 12
SIGTERM == 15
SIGCHLD == 17
\* allSig := make(chan os.Signal, 64)
AllSigCap == 64
\* done := make(chan int, 1)
DoneCap == 1
\* the pid the kernel gives the first process spawned by PID 1
FirstPid == 2

\* termCh := make(chan os.Signal, 8)
TermChCap == 8
\* const childEnvKey, childEnvVal, stopTimeoutEnv
childEnvKey == "PSI_CHILD"
childEnvVal == "1"
stopTimeoutEnv == "PSI_STOP_TIMEOUT"
\* what os.Getpid() may return: 1, or the pid of an ordinary process
Getpids == {1, 4242}
\* the values of PSI_CHILD explored: unset or empty, the marker, another value
ChildEnvs == {"", "1", "0"}
\* the pieces the values of PSI_STOP_TIMEOUT explored are made of: a space,
\* a sign, digits, the units m and s, a letter that is no unit, and the least
\* number of seconds that does not fit a time.Duration
Tokens == {<<" ">>, <<"-">>, <<"1">>, <<"1", "5">>, <<"m">>, <<"s">>, <<"b">>,
           <<"9", "2", "2", "3", "3", "7", "2", "0", "3", "7">>}
\* the values submain returns in Run and runChild
Rets == {0, 42, 99, 255, 256}

\* an os.Signal value: a syscall.Signal (a number), or another implementation of
\* the interface, known by its String() (the tests' fakeSignal)
Sys(n) == [typ |-> "syscall.Signal", num |-> n]
Fake(str) == [typ |-> "fakeSignal", str |-> str]

\* signal.Notify(allSig) subscribes to every catchable signal
Catchable == {Sys(n) : n \in {SIGHUP, SIGINT, SIGQUIT, SIGUSR1, SIGUSR2, SIGTERM, SIGCHLD}}
\* the signals sent to the supervisor in the runs explored: two of the terminate
\* class, one outside it, and the child-status notification
Signals == {Sys(n) : n \in {SIGINT, SIGTERM, SIGUSR1, SIGCHLD}}
\* return values of submain, and exit codes of other processes
ExitCodes == {0, 7}

\* the unexpected errors (neither EINTR nor ECHILD) a blocking wait may report;
\* each is reported at most once in a run
WaitErrors == {"EOTHER"}

\* signal.Notify(termCh, SIGINT, SIGTERM, SIGQUIT, SIGHUP) in runChild
TermSignals == {Sys(n) : n \in {SIGINT, SIGTERM, SIGQUIT, SIGHUP}}
\* no signal in hand
NoSignal == [typ |-> "none"]

Pids == FirstPid .. (FirstPid + MaxOrphans)

NoStatus == [kind |-> "none", val |-> 0]
Exited(n) == [kind |-> "exited", val |-> n]
Signaled(s) == [kind |-> "signaled", val |-> s]

VARIABLES
    supPC,      \* where the main goroutine is: run, direct, worker (in Run and runChild);
                \* starting, select, armcheck, drain, killwait (in runAsInit); exited;
                \* test, parse, parsed when a function is called on its own
    exitCode,   \* the status os.Exit / log.Fatalf was called with, -1 before
    childPID,   \* cmd.Process.Pid, 0 before the spawn; the argument of reapUntilChildExit
    code,       \* the value received from done, -1 before
    done,       \* the channel done, capacity 1
    allSig,     \* the channel allSig
    sigCount,   \* signals delivered so far
    startOnce,  \* whether startOnce.Do has run
    killTimer,  \* nil, running, fired (a value waits in killTimer.C), drained
    armCount,   \* how many times the timer was started (NewTimer or Reset)
    proc,       \* kernel: per pid none (no child of this process), running, zombie, reaped
    ws,         \* kernel: the wait status of a terminated process
    reapPC,     \* reaper goroutine: idle, wait, sleep, returned, sent
    reapRet,    \* the value reapUntilChildExit returned, -1 before
    errsLeft,   \* kernel: the unexpected wait errors not yet reported
    nKills,     \* how many syscall.Kill calls were made
    lastKill,   \* the latest syscall.Kill call, as <<pid, signal>>
    termCount,  \* how many INT, TERM, QUIT or HUP signals the select loop has received
    left,       \* the zombies the reap loop left uncollected when it returned
    getpid,     \* os.Getpid()
    env,        \* the environment: the values of PSI_CHILD and PSI_STOP_TIMEOUT
    role,       \* the role Run has taken: none, Direct, Worker, Supervisor
    ctxDone,    \* runChild: whether ctx is cancelled
    cancels,    \* runChild: how many times cancel() was called
    termCh,     \* runChild: the channel termCh
    def,        \* parseStopTimeout: the argument def
    stopTimeout, \* what parseStopTimeout returned
    warned,     \* whether parseStopTimeout logged its warning
    cur         \* the signal s of the select case being executed, NoSignal outside it

vars == <<supPC, exitCode, childPID, code, done, allSig, sigCount, startOnce, killTimer,
          armCount, proc, ws, reapPC, reapRet, errsLeft, nKills, lastKill, termCount, left,
          getpid, env, role, ctxDone, cancels, termCh, def, stopTimeout, warned, cur>>

\* the variables of Run, runChild and parseStopTimeout, and the signal in hand
restVars == <<getpid, env, role, ctxDone, cancels, termCh, def, stopTimeout, warned, cur>>

\* the variables neither the kernel nor the reaper changes
supVars == <<supPC, exitCode, code, allSig, sigCount, startOnce, killTimer, armCount,
             nKills, lastKill, termCount>>

(* ---------------- pure functions ---------------- *)

\* a time.Duration: a sign and the decimal digits of its nanoseconds, most
\* significant first, without leading zeros (int64 does not fit the checker's
\* integers)
Duration(neg, ns) == [neg |-> neg, ns |-> ns]
\* const defaultStopTimeout = 30 * time.Second
defaultStopTimeout == Duration(FALSE, <<3, 0, 0, 0, 0, 0, 0, 0, 0, 0, 0>>)
\* d < 0
IsNegative(d) == d.neg /\ d.ns # <<>>

\* the limits time.ParseDuration tests against: 1<<63, 1<<63 - 1, 1<<63 / 10
Max63 == <<9, 2, 2, 3, 3, 7, 2, 0, 3, 6, 8, 5, 4, 7, 7, 5, 8, 0, 8>>
MaxInt64 == <<9, 2, 2, 3, 3, 7, 2, 0, 3, 6, 8, 5, 4, 7, 7, 5, 8, 0, 7>>
Max63Div10 == <<9, 2, 2, 3, 3, 7, 2, 0, 3, 6, 8, 5, 4, 7, 7, 5, 8, 0>>

\* arithmetic on digit sequences
RECURSIVE Norm(_)
Norm(ds) == IF ds # <<>> /\ Head(ds) = 0 THEN Norm(Tail(ds)) ELSE ds

RECURSIVE LexLess(_, _)
LexLess(a, b) ==
    IF a = <<>> THEN FALSE
    ELSE IF Head(a) # Head(b) THEN Head(a) < Head(b)
    ELSE LexLess(Tail(a), Tail(b))

\* a > b
Greater(a, b) == Len(a) > Len(b) \/ (Len(a) = Len(b) /\ LexLess(b, a))

Reverse(ds) == [i \in 1..Len(ds) |-> ds[Len(ds) + 1 - i]]
Zeros(n) == [i \in 1..n |-> 0]

\* a + b + c on sequences with the least significant digit first
RECURSIVE AddLE(_, _, _)
AddLE(a, b, c) ==
    IF a = <<>> /\ b = <<>>
    THEN IF c = 0 THEN <<>> ELSE <<c>>
    ELSE LET x == (IF a = <<>> THEN 0 ELSE Head(a)) + (IF b = <<>> THEN 0 ELSE Head(b)) + c
         IN <<x % 10>> \o AddLE(IF a = <<>> THEN a ELSE Tail(a),
                                IF b = <<>> THEN b ELSE Tail(b), x \div 10)

Add(a, b) == Norm(Reverse(AddLE(Reverse(a), Reverse(b), 0)))

\* a * k + c, the least significant digit first
RECURSIVE MulLE(_, _, _)
MulLE(a, k, c) ==
    IF a = <<>>
    THEN IF c = 0 THEN <<>> ELSE <<c % 10>> \o MulLE(a, k, c \div 10)
    ELSE LET x == Head(a) * k + c
         IN <<x % 10>> \o MulLE(Tail(a), k, x \div 10)

\* a * unit, the unit given as mant * 10^zeros nanoseconds
Mul(a, unit) ==
    IF a = <<>> THEN <<>>
    ELSE Norm(Reverse(MulLE(Reverse(a), unit.mant, 0))) \o Zeros(unit.zeros)

\* the characters '0' .. '9' and their values
Digits == {"0", "1", "2", "3", "4", "5", "6", "7", "8", "9"}
DigitVal(c) ==
    CASE c = "0" -> 0 [] c = "1" -> 1 [] c = "2" -> 2 [] c = "3" -> 3 [] c = "4" -> 4
      [] c = "5" -> 5 [] c = "6" -> 6 [] c = "7" -> 7 [] c = "8" -> 8 [] c = "9" -> 9

\* strings.TrimSpace, on a string given as the sequence of its characters
RECURSIVE TrimLeft(_)
TrimLeft(str) == IF str # <<>> /\ Head(str) = " " THEN TrimLeft(Tail(str)) ELSE str
TrimSpace(str) == Reverse(TrimLeft(Reverse(TrimLeft(str))))

\* isAllDigits
isAllDigits(str) ==
    IF str = <<>> THEN FALSE
    ELSE \A i \in 1..Len(str) : str[i] \in Digits

\* time.ParseDuration's unitMap (the ASCII names), in nanoseconds
UnitNames == {<<"n", "s">>, <<"u", "s">>, <<"m", "s">>, <<"s">>, <<"m">>, <<"h">>}
unitMap(u) ==
    CASE u = <<"n", "s">> -> [mant |-> 1, zeros |-> 0]
      [] u = <<"u", "s">> -> [mant |-> 1, zeros |-> 3]
      [] u = <<"m", "s">> -> [mant |-> 1, zeros |-> 6]
      [] u = <<"s">> -> [mant |-> 1, zeros |-> 9]
      [] u = <<"m">> -> [mant |-> 6, zeros |-> 10]
      [] u = <<"h">> -> [mant |-> 36, zeros |-> 11]

RECURSIVE DigitsLen(_)
DigitsLen(str) == IF str # <<>> /\ Head(str) \in Digits THEN 1 + DigitsLen(Tail(str)) ELSE 0
RECURSIVE UnitLen(_)
UnitLen(str) == IF str # <<>> /\ Head(str) \notin Digits THEN 1 + UnitLen(Tail(str)) ELSE 0

\* time.ParseDuration's leadingInt: the leading digits as a number, the rest,
\* and whether the number overflowed (x > 1<<63/10 before a digit is added, or
\* x > 1<<63 after)
leadingInt(str) ==
    LET n == DigitsLen(str)
        ds == [i \in 1..n |-> DigitVal(str[i])]
    IN [x |-> Norm(ds),
        rem |-> SubSeq(str, n + 1, Len(str)),
        err |-> n > 0 /\ (\/ Greater(Norm(SubSeq(ds, 1, n - 1)), Max63Div10)
                          \/ Greater(Norm(ds), Max63))]

ParseFail == [ok |-> FALSE, d |-> Duration(FALSE, <<>>)]

\* the loop of time.ParseDuration over the terms <digits><unit>, d being the
\* sum so far. The strings explored have no '.', so no term has a fraction.
RECURSIVE ParseTerms(_, _)
ParseTerms(str, d) ==
    IF str = <<>> THEN [ok |-> TRUE, d |-> d]
    ELSE IF Head(str) \notin Digits THEN ParseFail
    ELSE LET li == leadingInt(str)
             n == UnitLen(li.rem)
             u == SubSeq(li.rem, 1, n)
         IN IF li.err THEN ParseFail
            ELSE IF n = 0 THEN ParseFail
            ELSE IF u \notin UnitNames THEN ParseFail
            ELSE LET v == Mul(li.x, unitMap(u))
                     sum == Add(d, v)
                 IN IF Greater(v, Max63) THEN ParseFail
                    ELSE IF Greater(sum, Max63) THEN ParseFail
                    ELSE ParseTerms(SubSeq(li.rem, n + 1, Len(li.rem)), sum)

\* time.ParseDuration: [-+]?([0-9]*[a-z]+)+, or "0"
ParseDuration(str) ==
    LET neg == str # <<>> /\ Head(str) = "-"
        t == IF str # <<>> /\ Head(str) \in {"-", "+"} THEN Tail(str) ELSE str
    IN IF t = <<"0">> THEN [ok |-> TRUE, d |-> Duration(FALSE, <<>>)]
       ELSE IF t = <<>> THEN ParseFail
       ELSE LET r == ParseTerms(t, <<>>)
            IN IF ~r.ok THEN ParseFail
               ELSE IF neg THEN [ok |-> TRUE, d |-> Duration(TRUE, r.d)]
               ELSE IF Greater(r.d, MaxInt64) THEN ParseFail
               ELSE [ok |-> TRUE, d |-> Duration(FALSE, r.d)]

\* parseStopTimeout accepting a negative duration
parseStopTimeout_NoNegCheck(getenv, d) ==
    LET val == TrimSpace(getenv)
        r == ParseDuration(IF isAllDigits(val) THEN val \o <<"s">> ELSE val)
    IN IF val = <<>> THEN [d |-> d, warned |-> FALSE]
       ELSE IF ~r.ok THEN [d |-> d, warned |-> TRUE]
       ELSE [d |-> r.d, warned |-> FALSE]

\* parseStopTimeout(def), getenv being os.Getenv(stopTimeoutEnv): the duration
\* returned and whether the warning was logged
parseStopTimeout(getenv, d) ==
    LET val == TrimSpace(getenv)
        r == ParseDuration(IF isAllDigits(val) THEN val \o <<"s">> ELSE val)
    IN IF val = <<>> THEN [d |-> d, warned |-> FALSE]
       ELSE IF ~r.ok \/ IsNegative(r.d) THEN [d |-> d, warned |-> TRUE]
       ELSE [d |-> r.d, warned |-> FALSE]

\* isTerminateSignal
isTerminateSignal(s) == s \in {Sys(SIGTERM), Sys(SIGINT), Sys(SIGQUIT), Sys(SIGHUP)}

\* strings.ToUpper on the names a signal's String() may give
ToUpper(str) ==
    CASE str \in {"sigterm", "SIGTERM"} -> "SIGTERM"
      [] str \in {"sigint", "SIGINT"} -> "SIGINT"
      [] str \in {"sigquit", "SIGQUIT"} -> "SIGQUIT"
      [] str \in {"sighup", "SIGHUP"} -> "SIGHUP"
      [] str \in {"sigusr1", "SIGUSR1"} -> "SIGUSR1"
      [] str \in {"sigusr2", "SIGUSR2"} -> "SIGUSR2"
      [] OTHER -> "UNKNOWN"

\* toSyscallSignal: <<signal number, ok>>. A syscall.Signal converts to itself;
\* any other os.Signal goes by its upper-cased name.
toSyscallSignal(s) ==
    IF s.typ = "syscall.Signal" THEN <<s.num, TRUE>>
    ELSE LET name == ToUpper(s.str) IN
         IF name = "SIGTERM" THEN <<SIGTERM, TRUE>>
         ELSE IF name = "SIGINT" THEN <<SIGINT, TRUE>>
         ELSE IF name = "SIGQUIT" THEN <<SIGQUIT, TRUE>>
         ELSE IF name = "SIGHUP" THEN <<SIGHUP, TRUE>>
         ELSE IF name = "SIGUSR1" THEN <<SIGUSR1, TRUE>>
         ELSE IF name = "SIGUSR2" THEN <<SIGUSR2, TRUE>>
         ELSE <<0, FALSE>>

\* killTimerC with the never-firing channel returned for every timer
killTimerC_Never(t) == FALSE

\* killTimerC returning, for a nil timer, a channel that is ready at once
killTimerC_NilFires(t) == IF t = "nil" THEN TRUE ELSE t = "fired"

\* killTimerC: the channel of a possibly-nil timer is ready only when a value waits in it
killTimerC(t) == IF t = "nil" THEN FALSE ELSE t = "fired"

\* the translation without the shell's 128 offset for a death by signal
ExitStatusOf_NoOffset(w) ==
    IF w.kind = "exited" THEN w.val
    ELSE IF w.kind = "signaled" THEN w.val
    ELSE 1

\* the translation of a wait status at the end of reapUntilChildExit
ExitStatusOf(w) ==
    IF w.kind = "exited" THEN w.val
    ELSE IF w.kind = "signaled" THEN 128 + w.val
    ELSE 1

(* ---------------- the kernel ---------------- *)

\* the processes a kill(pid, sig) reaches: a negative pid names a process group.
\* Every descendant of the managed child is in its group (Setpgid: true, inherited).
KillTargets(pid) ==
    IF pid < 0 THEN {p \in Pids : proc[p] = "running"}
    ELSE {p \in Pids : p = pid /\ proc[p] = "running"}

HasChildren == \E p \in Pids : proc[p] \in {"running", "zombie"}
Zombies == {p \in Pids : proc[p] = "zombie"}

\* the processes of `dying` terminate by signal sig
Terminate(dying, sig) ==
    /\ proc' = [p \in Pids |-> IF p \in dying THEN "zombie" ELSE proc[p]]
    /\ ws' = [p \in Pids |-> IF p \in dying THEN Signaled(sig) ELSE ws[p]]

\* syscall.Kill(pid, sig): SIGKILL terminates every process reached. Any other
\* signal may terminate the managed child (it catches, ignores or dies of it);
\* the other descendants catch it and end, if they do, by exiting.
Kill(pid, sig) ==
    /\ nKills' = nKills + 1
    /\ lastKill' = <<pid, sig>>
    /\ IF sig = SIGKILL
       THEN Terminate(KillTargets(pid), sig)
       ELSE \E dying \in SUBSET (KillTargets(pid) \cap {childPID}) : Terminate(dying, sig)

\* the kernel removes a collected process; the model keeps the wait status of
\* the managed child as the record of its outcome
Collect(p) ==
    /\ proc' = [proc EXCEPT ![p] = "reaped"]
    /\ ws' = IF p = childPID THEN ws ELSE [ws EXCEPT ![p] = NoStatus]

(* ---------------- the environment ---------------- *)

\* a process returns from its main (the worker: submain returned n)
ProcExit ==
    /\ UNCHANGED restVars
    /\ supPC # "exited"
    /\ \E p \in Pids, n \in ExitCodes :
        /\ proc[p] = "running"
        /\ proc' = [proc EXCEPT ![p] = "zombie"]
        /\ ws' = [ws EXCEPT ![p] = Exited(n)]
    /\ UNCHANGED <<supVars, childPID, done, reapPC, reapRet, errsLeft, left>>

\* an orphaned descendant is re-parented to PID 1; the model numbers the
\* orphans in the order they arrive
Adopt ==
    /\ UNCHANGED restVars
    /\ supPC \in {"select", "armcheck", "drain", "killwait"}
    /\ \E p \in Pids \ {childPID} :
        /\ proc[p] = "none"
        /\ \A q \in Pids \ {childPID} : q < p => proc[q] # "none"
        /\ proc' = [proc EXCEPT ![p] = "running"]
    /\ UNCHANGED <<supVars, childPID, done, ws, reapPC, reapRet, errsLeft, left>>

\* a signal arrives at PID 1; the runtime passes it to allSig without blocking
SignalArrives ==
    /\ UNCHANGED restVars
    /\ supPC \in {"select", "armcheck", "drain", "killwait"}
    /\ sigCount < MaxSignals
    /\ \E s \in Signals :
        allSig' = IF Len(allSig) < AllSigCap THEN Append(allSig, s) ELSE allSig
    /\ sigCount' = sigCount + 1
    /\ UNCHANGED <<supPC, exitCode, childPID, code, done, startOnce, killTimer, armCount,
                   proc, ws, reapPC, reapRet, errsLeft, nKills, lastKill, termCount, left>>

\* the stop timeout elapses: the runtime puts a value in killTimer.C
TimerExpire ==
    /\ UNCHANGED restVars
    /\ killTimer = "running"
    /\ supPC # "exited"
    /\ killTimer' = "fired"
    /\ UNCHANGED <<supPC, exitCode, childPID, code, done, allSig, sigCount, startOnce,
                   armCount, proc, ws, reapPC, reapRet, errsLeft, nKills, lastKill,
                   termCount, left>>

(* ---------------- the reaper goroutine ---------------- *)

\* what syscall.Wait4(-1, &ws, 0, &ru) can return in the current state: a
\* terminated child, ECHILD when the caller has no child, EINTR or an unexpected
\* error while it has one; with only running children and no error it blocks.
Wait4Results ==
    {[pid |-> p, err |-> "nil"] : p \in Zombies}
    \cup (IF HasChildren
          THEN {[pid |-> -1, err |-> e] : e \in errsLeft \cup {"EINTR"}}
          ELSE {[pid |-> -1, err |-> "ECHILD"]})

\* reapUntilChildExit giving up on an unexpected wait error: it returns 1
ReapStep_ErrFatal ==
    /\ UNCHANGED restVars
    /\ reapPC = "wait"
    /\ supPC # "exited"
    /\ \E r \in Wait4Results :
        IF r.err # "nil"
        THEN /\ IF r.err = "EINTR"
                THEN /\ reapPC' = "wait"
                     /\ reapRet' = reapRet
                ELSE IF r.err = "ECHILD"
                THEN /\ reapPC' = "returned"
                     /\ reapRet' = 0
                ELSE /\ reapPC' = "returned"
                     /\ reapRet' = 1
             /\ errsLeft' = errsLeft \ {r.err}
             /\ left' = IF r.err # "EINTR" THEN Zombies ELSE left
             /\ UNCHANGED <<proc, ws>>
        ELSE /\ Collect(r.pid)
             /\ errsLeft' = errsLeft
             /\ IF r.pid = childPID
                THEN /\ reapPC' = "returned"
                     /\ reapRet' = ExitStatusOf(ws[r.pid])
                     /\ left' = Zombies \ {r.pid}
                ELSE /\ reapPC' = "wait"
                     /\ reapRet' = reapRet
                     /\ left' = left
    /\ UNCHANGED <<supVars, childPID, done>>

\* reapUntilChildExit without the test pid == childPID: it returns the status
\* of the first child it collects
ReapStep_AnyPid ==
    /\ UNCHANGED restVars
    /\ reapPC = "wait"
    /\ supPC # "exited"
    /\ \E r \in Wait4Results :
        IF r.err # "nil"
        THEN /\ IF r.err = "EINTR"
                THEN /\ reapPC' = "wait"
                     /\ reapRet' = reapRet
                ELSE IF r.err = "ECHILD"
                THEN /\ reapPC' = "returned"
                     /\ reapRet' = 0
                ELSE /\ reapPC' = "sleep"
                     /\ reapRet' = reapRet
             /\ errsLeft' = errsLeft \ {r.err}
             /\ left' = IF r.err = "ECHILD" THEN Zombies ELSE left
             /\ UNCHANGED <<proc, ws>>
        ELSE /\ proc' = [proc EXCEPT ![r.pid] = "reaped"]
             /\ ws' = ws
             /\ errsLeft' = errsLeft
             /\ reapPC' = "returned"
             /\ reapRet' = ExitStatusOf(ws[r.pid])
             /\ left' = Zombies \ {r.pid}
    /\ UNCHANGED <<supVars, childPID, done>>

\* one iteration of the loop of reapUntilChildExit(childPID)
ReapStep ==
    /\ UNCHANGED restVars
    /\ reapPC = "wait"
    /\ supPC # "exited"
    /\ \E r \in Wait4Results :
        IF r.err # "nil"
        THEN /\ IF r.err = "EINTR"
                THEN /\ reapPC' = "wait"
                     /\ reapRet' = reapRet
                ELSE IF r.err = "ECHILD"
                THEN /\ reapPC' = "returned"
                     /\ reapRet' = 0
                ELSE /\ reapPC' = "sleep"
                     /\ reapRet' = reapRet
             /\ errsLeft' = errsLeft \ {r.err}
             /\ left' = IF r.err = "ECHILD" THEN Zombies ELSE left
             /\ UNCHANGED <<proc, ws>>
        ELSE /\ Collect(r.pid)
             /\ errsLeft' = errsLeft
             /\ IF r.pid = childPID
                THEN /\ reapPC' = "returned"
                     /\ reapRet' = ExitStatusOf(ws[r.pid])
                     /\ left' = Zombies \ {r.pid}
                ELSE /\ reapPC' = "wait"
                     /\ reapRet' = reapRet
                     /\ left' = left
    /\ UNCHANGED <<supVars, childPID, done>>

\* time.Sleep(10 * time.Millisecond) after an unexpected error is over
ReapSleepOver ==
    /\ UNCHANGED restVars
    /\ reapPC = "sleep"
    /\ supPC # "exited"
    /\ reapPC' = "wait"
    /\ UNCHANGED <<supVars, childPID, done, proc, ws, reapRet, errsLeft, left>>

\* go func() { done <- reapUntilChildExit(childPID) }()
ReaperSend ==
    /\ UNCHANGED restVars
    /\ reapPC = "returned"
    /\ supPC \notin {"test", "exited"}
    /\ Len(done) < DoneCap
    /\ done' = Append(done, reapRet)
    /\ reapPC' = "sent"
    /\ UNCHANGED <<supVars, childPID, proc, ws, reapRet, errsLeft, left>>

(* ---------------- the supervisor: runAsInit ---------------- *)

\* cmd.Start() and what follows it up to the select loop; a failed spawn is
\* log.Fatalf, which exits with status 1
Start ==
    /\ UNCHANGED restVars
    /\ supPC = "starting"
    /\ \/ /\ childPID' = FirstPid
          /\ proc' = [proc EXCEPT ![FirstPid] = "running"]
          /\ reapPC' = "wait"
          /\ supPC' = "select"
          /\ exitCode' = exitCode
       \/ /\ supPC' = "exited"
          /\ exitCode' = 1
          /\ UNCHANGED <<childPID, proc, reapPC>>
    /\ UNCHANGED <<code, done, allSig, sigCount, startOnce, killTimer, armCount, ws,
                   reapRet, errsLeft, nKills, lastKill, termCount, left>>

\* the closure startKillTimer: a new timer, or Stop, drain and Reset of the old
\* one; either way the countdown starts from the full stop timeout
startKillTimer ==
    /\ killTimer' = "running"
    /\ armCount' = armCount + 1

\* startKillTimer called on every terminate-class signal, without the sync.Once
startOnceDo_NoOnce ==
    /\ startOnce' = TRUE
    /\ startKillTimer

\* startOnce.Do(func() { startKillTimer() })
startOnceDo ==
    IF startOnce
    THEN UNCHANGED <<startOnce, killTimer, armCount>>
    ELSE /\ startOnce' = TRUE
         /\ startKillTimer

\* the select case forwarding to the managed child alone: Kill(childPID, sig)
SelectSignal_ChildOnly ==
    /\ UNCHANGED restVars
    /\ supPC = "select"
    /\ allSig # <<>>
    /\ LET s == Head(allSig)
           conv == toSyscallSignal(s)
       IN /\ allSig' = Tail(allSig)
          /\ termCount' = IF s \in {Sys(SIGINT), Sys(SIGTERM), Sys(SIGQUIT), Sys(SIGHUP)}
                          THEN termCount + 1 ELSE termCount
          /\ IF s = Sys(SIGCHLD)
             THEN UNCHANGED <<nKills, lastKill, proc, ws, startOnce, killTimer, armCount>>
             ELSE /\ IF conv[2]
                     THEN Kill(childPID, conv[1])
                     ELSE UNCHANGED <<nKills, lastKill, proc, ws>>
                  /\ IF isTerminateSignal(s)
                     THEN startOnceDo
                     ELSE UNCHANGED <<startOnce, killTimer, armCount>>
    /\ UNCHANGED <<supPC, exitCode, childPID, code, done, sigCount, reapPC, reapRet,
                   errsLeft, left>>

\* the select case forwarding only while the timer has not been started
SelectSignal_StopWhenArmed ==
    /\ UNCHANGED restVars
    /\ supPC = "select"
    /\ allSig # <<>>
    /\ LET s == Head(allSig)
           conv == toSyscallSignal(s)
       IN /\ allSig' = Tail(allSig)
          /\ termCount' = IF s \in {Sys(SIGINT), Sys(SIGTERM), Sys(SIGQUIT), Sys(SIGHUP)}
                          THEN termCount + 1 ELSE termCount
          /\ IF s = Sys(SIGCHLD)
             THEN UNCHANGED <<nKills, lastKill, proc, ws, startOnce, killTimer, armCount>>
             ELSE /\ IF conv[2] /\ ~startOnce
                     THEN Kill(-childPID, conv[1])
                     ELSE UNCHANGED <<nKills, lastKill, proc, ws>>
                  /\ IF isTerminateSignal(s)
                     THEN startOnceDo
                     ELSE UNCHANGED <<startOnce, killTimer, armCount>>
    /\ UNCHANGED <<supPC, exitCode, childPID, code, done, sigCount, reapPC, reapRet,
                   errsLeft, left>>

\* case s := <-allSig
SelectSignal ==
    /\ UNCHANGED restVars
    /\ supPC = "select"
    /\ allSig # <<>>
    /\ LET s == Head(allSig)
           conv == toSyscallSignal(s)
       IN /\ allSig' = Tail(allSig)
          /\ termCount' = IF s \in {Sys(SIGINT), Sys(SIGTERM), Sys(SIGQUIT), Sys(SIGHUP)}
                          THEN termCount + 1 ELSE termCount
          /\ IF s = Sys(SIGCHLD)
             THEN UNCHANGED <<nKills, lastKill, proc, ws, startOnce, killTimer, armCount>>
             ELSE /\ IF conv[2]
                     THEN Kill(-childPID, conv[1])
                     ELSE UNCHANGED <<nKills, lastKill, proc, ws>>
                  /\ IF isTerminateSignal(s)
                     THEN startOnceDo
                     ELSE UNCHANGED <<startOnce, killTimer, armCount>>
    /\ UNCHANGED <<supPC, exitCode, childPID, code, done, sigCount, reapPC, reapRet,
                   errsLeft, left>>

\* the first half of the signal case running the arm-timer check before the
\* forwarding, which it leaves out
ForwardSignal_ArmFirst ==
    /\ supPC = "select"
    /\ allSig # <<>>
    /\ LET s == Head(allSig)
       IN /\ allSig' = Tail(allSig)
          /\ termCount' = IF isTerminateSignal(s) THEN termCount + 1 ELSE termCount
          /\ IF s = Sys(SIGCHLD)
             THEN UNCHANGED <<supPC, cur, startOnce, killTimer, armCount>>
             ELSE /\ supPC' = "armcheck"
                  /\ cur' = s
                  /\ IF isTerminateSignal(s)
                     THEN startOnceDo
                     ELSE UNCHANGED <<startOnce, killTimer, armCount>>
    /\ UNCHANGED <<exitCode, childPID, code, done, sigCount, reapPC, reapRet, errsLeft, left,
                   nKills, lastKill, proc, ws,
                   getpid, env, role, ctxDone, cancels, termCh, def, stopTimeout, warned>>

\* case s := <-allSig, first half: the receive, the SIGCHLD test and the
\* forwarding; the select case taken in two steps
ForwardSignal ==
    /\ supPC = "select"
    /\ allSig # <<>>
    /\ LET s == Head(allSig)
           conv == toSyscallSignal(s)
       IN /\ allSig' = Tail(allSig)
          /\ termCount' = IF isTerminateSignal(s) THEN termCount + 1 ELSE termCount
          /\ IF s = Sys(SIGCHLD)
             THEN UNCHANGED <<supPC, cur, nKills, lastKill, proc, ws>>
             ELSE /\ supPC' = "armcheck"
                  /\ cur' = s
                  /\ IF conv[2]
                     THEN Kill(-childPID, conv[1])
                     ELSE UNCHANGED <<nKills, lastKill, proc, ws>>
    /\ UNCHANGED <<exitCode, childPID, code, done, sigCount, reapPC, reapRet, errsLeft, left,
                   startOnce, killTimer, armCount,
                   getpid, env, role, ctxDone, cancels, termCh, def, stopTimeout, warned>>

\* case s := <-allSig, second half: the arm-timer check, then back to select
ArmCheck ==
    /\ supPC = "armcheck"
    /\ IF isTerminateSignal(cur)
       THEN startOnceDo
       ELSE UNCHANGED <<startOnce, killTimer, armCount>>
    /\ cur' = NoSignal
    /\ supPC' = "select"
    /\ UNCHANGED <<exitCode, childPID, code, done, allSig, sigCount, proc, ws, reapPC, reapRet,
                   errsLeft, nKills, lastKill, termCount, left,
                   getpid, env, role, ctxDone, cancels, termCh, def, stopTimeout, warned>>

\* the done case of a supervisor that restarts the child when it has exited
SelectDone_Restart ==
    /\ UNCHANGED restVars
    /\ supPC = "select"
    /\ done # <<>>
    /\ code' = Head(done)
    /\ done' = Tail(done)
    /\ supPC' = "starting"
    /\ UNCHANGED <<exitCode, childPID, allSig, sigCount, startOnce, killTimer, armCount,
                   proc, ws, reapPC, reapRet, errsLeft, nKills, lastKill, termCount, left>>

\* case code := <-done, up to and including the 50 ms sleep
SelectDone ==
    /\ UNCHANGED restVars
    /\ supPC = "select"
    /\ done # <<>>
    /\ code' = Head(done)
    /\ done' = Tail(done)
    /\ supPC' = "drain"
    /\ UNCHANGED <<exitCode, childPID, allSig, sigCount, startOnce, killTimer, armCount,
                   proc, ws, reapPC, reapRet, errsLeft, nKills, lastKill, termCount, left>>

\* the child-exit path without the sweep: os.Exit(code) right after the sleep
DrainStep_Skip ==
    /\ UNCHANGED restVars
    /\ supPC = "drain"
    /\ supPC' = "exited"
    /\ exitCode' = code
    /\ UNCHANGED <<childPID, code, done, allSig, sigCount, startOnce, killTimer, armCount,
                   proc, ws, reapPC, reapRet, errsLeft, nKills, lastKill, termCount, left>>

\* the sweep as a single Wait4 with WNOHANG instead of a loop
DrainStep_Once ==
    /\ UNCHANGED restVars
    /\ supPC = "drain"
    /\ IF Zombies # {}
       THEN \E p \in Zombies :
                /\ Collect(p)
                /\ left' = left \ {p}
       ELSE UNCHANGED <<proc, ws, left>>
    /\ supPC' = "exited"
    /\ exitCode' = code
    /\ UNCHANGED <<childPID, code, done, allSig, sigCount, startOnce, killTimer, armCount,
                   reapPC, reapRet, errsLeft, nKills, lastKill, termCount>>

\* one iteration of drainZombiesNonBlock (Wait4 with WNOHANG); when it finds
\* no terminated child it returns and runAsInit calls os.Exit(code)
DrainStep ==
    /\ UNCHANGED restVars
    /\ supPC = "drain"
    /\ IF Zombies # {}
       THEN /\ \E p \in Zombies :
                /\ Collect(p)
                /\ left' = left \ {p}
            /\ UNCHANGED <<supPC, exitCode>>
       ELSE /\ supPC' = "exited"
            /\ exitCode' = code
            /\ UNCHANGED <<proc, ws, left>>
    /\ UNCHANGED <<childPID, code, done, allSig, sigCount, startOnce, killTimer, armCount,
                   reapPC, reapRet, errsLeft, nKills, lastKill, termCount>>

\* the timer case exiting right after the kill, without waiting on done
SelectTimer_ExitNow ==
    /\ UNCHANGED restVars
    /\ supPC = "select"
    /\ killTimerC(killTimer)
    /\ killTimer' = "drained"
    /\ Kill(-childPID, SIGKILL)
    /\ supPC' = "exited"
    /\ exitCode' = 128 + SIGKILL
    /\ UNCHANGED <<childPID, code, done, allSig, sigCount, startOnce, armCount,
                   reapPC, reapRet, errsLeft, termCount, left>>

\* the timer case sending SIGTERM, which the child may ignore, instead of SIGKILL
SelectTimer_Term ==
    /\ UNCHANGED restVars
    /\ supPC = "select"
    /\ killTimerC(killTimer)
    /\ killTimer' = "drained"
    /\ Kill(-childPID, SIGTERM)
    /\ supPC' = "killwait"
    /\ UNCHANGED <<exitCode, childPID, code, done, allSig, sigCount, startOnce, armCount,
                   reapPC, reapRet, errsLeft, termCount, left>>

\* case <-killTimerC(killTimer): SIGKILL to the child's process group
SelectTimer ==
    /\ UNCHANGED restVars
    /\ supPC = "select"
    /\ killTimerC(killTimer)
    /\ killTimer' = "drained"
    /\ Kill(-childPID, SIGKILL)
    /\ supPC' = "killwait"
    /\ UNCHANGED <<exitCode, childPID, code, done, allSig, sigCount, startOnce, armCount,
                   reapPC, reapRet, errsLeft, termCount, left>>

\* code := <-done; os.Exit(code) after the forced kill
KillWaitDone ==
    /\ UNCHANGED restVars
    /\ supPC = "killwait"
    /\ done # <<>>
    /\ code' = Head(done)
    /\ done' = Tail(done)
    /\ exitCode' = Head(done)
    /\ supPC' = "exited"
    /\ UNCHANGED <<childPID, allSig, sigCount, startOnce, killTimer, armCount,
                   proc, ws, reapPC, reapRet, errsLeft, nKills, lastKill, termCount, left>>

(* ---------------- Run and runChild ---------------- *)

\* what the kernel keeps of the argument of os.Exit: its low 8 bits
ExitStatus(n) == n % 256

\* the variables of runAsInit, its reaper and the kernel's process table
initVars == <<childPID, done, allSig, startOnce, killTimer, armCount, proc, ws, reapPC,
              reapRet, errsLeft, nKills, lastKill, termCount, left>>

\* Run testing the pid before the marker
Run_PidFirst ==
    /\ supPC = "run"
    /\ IF getpid = 1
       THEN /\ role' = "Supervisor"
            /\ supPC' = "starting"
       ELSE IF env[childEnvKey] = childEnvVal
       THEN /\ role' = "Worker"
            /\ supPC' = "worker"
       ELSE /\ role' = "Direct"
            /\ supPC' = "direct"
    /\ UNCHANGED <<initVars, exitCode, code, sigCount, getpid, env, ctxDone, cancels, termCh,
                   def, stopTimeout, warned, cur>>

\* Run, up to the call of submain or of runAsInit; in runChild that is the new
\* context, termCh, signal.Notify and the start of the cancelling goroutine
Run ==
    /\ supPC = "run"
    /\ IF env[childEnvKey] = childEnvVal
       THEN /\ role' = "Worker"
            /\ supPC' = "worker"
       ELSE IF getpid # 1
       THEN /\ role' = "Direct"
            /\ supPC' = "direct"
       ELSE /\ role' = "Supervisor"
            /\ supPC' = "starting"
    /\ UNCHANGED <<initVars, exitCode, code, sigCount, getpid, env, ctxDone, cancels, termCh,
                   def, stopTimeout, warned, cur>>

\* a signal of the set given to signal.Notify arrives at the worker; the
\* runtime passes it to termCh without blocking
WorkerSignal ==
    /\ supPC = "worker"
    /\ sigCount < MaxSignals
    /\ \E s \in TermSignals :
        termCh' = IF Len(termCh) < TermChCap THEN Append(termCh, s) ELSE termCh
    /\ sigCount' = sigCount + 1
    /\ UNCHANGED <<initVars, supPC, exitCode, code, getpid, env, role, ctxDone, cancels,
                   def, stopTimeout, warned, cur>>

\* a cancel that is not idempotent: the second call panics and the runtime
\* exits with status 2
WorkerCancel_PanicOnSecond ==
    /\ supPC = "worker"
    /\ termCh # <<>>
    /\ termCh' = Tail(termCh)
    /\ cancels' = cancels + 1
    /\ IF ctxDone
       THEN /\ supPC' = "exited"
            /\ exitCode' = 2
            /\ ctxDone' = ctxDone
       ELSE /\ ctxDone' = TRUE
            /\ UNCHANGED <<supPC, exitCode>>
    /\ UNCHANGED <<initVars, code, sigCount, getpid, env, role, def, stopTimeout, warned, cur>>

\* the goroutine exiting the process itself on a signal, with 128 + the signal
WorkerCancel_Exit ==
    /\ supPC = "worker"
    /\ termCh # <<>>
    /\ termCh' = Tail(termCh)
    /\ ctxDone' = TRUE
    /\ cancels' = cancels + 1
    /\ supPC' = "exited"
    /\ exitCode' = 128 + Head(termCh).num
    /\ UNCHANGED <<initVars, code, sigCount, getpid, env, role, def, stopTimeout, warned, cur>>

\* one iteration of: for range termCh { cancel() }
WorkerCancel ==
    /\ supPC = "worker"
    /\ termCh # <<>>
    /\ termCh' = Tail(termCh)
    /\ ctxDone' = TRUE
    /\ cancels' = cancels + 1
    /\ UNCHANGED <<initVars, supPC, exitCode, code, sigCount, getpid, env, role,
                   def, stopTimeout, warned, cur>>

\* submain returns n, at any time and whatever it saw of ctx; os.Exit(code)
SubmainReturn ==
    /\ supPC \in {"direct", "worker"}
    /\ \E n \in Rets :
        /\ code' = n
        /\ exitCode' = ExitStatus(n)
    /\ supPC' = "exited"
    /\ UNCHANGED <<initVars, sigCount, getpid, env, role, ctxDone, cancels, termCh,
                   def, stopTimeout, warned, cur>>

(* ---------------- specifications ---------------- *)

\* the state of Run, runChild and parseStopTimeout when only runAsInit or one
\* of its functions is explored: PID 1 without the marker has taken the
\* Supervisor role
InitRest ==
    /\ getpid = 1
    /\ env = [PSI_CHILD |-> "", PSI_STOP_TIMEOUT |-> <<>>]
    /\ role = "Supervisor"
    /\ ctxDone = FALSE
    /\ cancels = 0
    /\ termCh = <<>>
    /\ def = defaultStopTimeout
    /\ stopTimeout = defaultStopTimeout
    /\ warned = FALSE
    /\ cur = NoSignal


Init ==
    /\ supPC = "starting"
    /\ exitCode = -1
    /\ childPID = 0
    /\ code = -1
    /\ done = <<>>
    /\ allSig = <<>>
    /\ sigCount = 0
    /\ startOnce = FALSE
    /\ killTimer = "nil"
    /\ armCount = 0
    /\ proc = [p \in Pids |-> "none"]
    /\ ws = [p \in Pids |-> NoStatus]
    /\ reapPC = "idle"
    /\ reapRet = -1
    /\ errsLeft = WaitErrors
    /\ nKills = 0
    /\ lastKill = <<0, 0>>
    /\ termCount = 0
    /\ left = {}
    /\ InitRest

Next ==
    \/ Start
    \/ SelectSignal
    \/ SelectDone
    \/ DrainStep
    \/ SelectTimer
    \/ KillWaitDone
    \/ ReapStep
    \/ ReapSleepOver
    \/ ReaperSend
    \/ ProcExit
    \/ Adopt
    \/ SignalArrives
    \/ TimerExpire

Spec == Init /\ [][Next]_vars

\* the supervisor with the signal case taken in its two halves
NextOrder ==
    \/ Start
    \/ ForwardSignal
    \/ ArmCheck
    \/ SelectDone
    \/ DrainStep
    \/ SelectTimer
    \/ KillWaitDone
    \/ ReapStep
    \/ ReapSleepOver
    \/ ReaperSend
    \/ ProcExit
    \/ Adopt
    \/ SignalArrives
    \/ TimerExpire

OrderSpec == Init /\ [][NextOrder]_vars

\* drainZombiesNonBlock called on its own, as the repository's
\* TestDrainZombiesNonBlock calls it, by a process that exits with 0 after
\* it: each pid may be a child, running or already terminated; left holds the
\* children that had terminated before the call
InitDrain ==
    /\ supPC = "drain"
    /\ exitCode = -1
    /\ childPID \in Pids
    /\ code = 0
    /\ done = <<>>
    /\ allSig = <<>>
    /\ sigCount = 0
    /\ startOnce = FALSE
    /\ killTimer = "nil"
    /\ armCount = 0
    /\ proc \in [Pids -> {"none", "running", "zombie"}]
    /\ ws \in [Pids -> {NoStatus} \cup {Exited(n) : n \in ExitCodes}]
    /\ \A p \in Pids : (proc[p] = "zombie") = (ws[p] # NoStatus)
    /\ reapPC = "idle"
    /\ reapRet = -1
    /\ errsLeft = WaitErrors
    /\ nKills = 0
    /\ lastKill = <<0, 0>>
    /\ termCount = 0
    /\ left = Zombies
    /\ InitRest

NextDrain ==
    \/ ProcExit
    \/ DrainStep

DrainSpec == InitDrain /\ [][NextDrain]_vars

\* the sweep runs whenever it can take a step
FairDrainSpec == DrainSpec /\ WF_vars(DrainStep)

\* reapUntilChildExit(childPID) called directly: the caller has forked some
\* children (any pid of Pids may or may not be one) and passes any pid
InitReap ==
    /\ supPC = "test"
    /\ exitCode = -1
    /\ childPID \in Pids
    /\ code = -1
    /\ done = <<>>
    /\ allSig = <<>>
    /\ sigCount = 0
    /\ startOnce = FALSE
    /\ killTimer = "nil"
    /\ armCount = 0
    /\ proc \in [Pids -> {"none", "running"}]
    /\ ws = [p \in Pids |-> NoStatus]
    /\ reapPC = "wait"
    /\ reapRet = -1
    /\ errsLeft = WaitErrors
    /\ nKills = 0
    /\ lastKill = <<0, 0>>
    /\ termCount = 0
    /\ left = {}
    /\ InitRest

NextReap ==
    \/ ProcExit
    \/ ReapStep
    \/ ReapSleepOver

ReapSpec == InitReap /\ [][NextReap]_vars

\* the values of PSI_STOP_TIMEOUT made of at most n tokens
RECURSIVE Strings(_)
Strings(n) ==
    IF n = 0 THEN {<<>>}
    ELSE LET S == Strings(n - 1) IN S \cup {str \o t : str \in S, t \in Tokens}

\* the defaults parseStopTimeout is called with: 30 s, and -1 s
Defaults == {defaultStopTimeout, Duration(TRUE, <<1, 0, 0, 0, 0, 0, 0, 0, 0, 0>>)}

\* parseStopTimeout(def) called on its own, as the repository's tests call it
InitParse ==
    /\ supPC = "parse"
    /\ exitCode = -1
    /\ childPID = 0
    /\ code = -1
    /\ done = <<>>
    /\ allSig = <<>>
    /\ sigCount = 0
    /\ startOnce = FALSE
    /\ killTimer = "nil"
    /\ armCount = 0
    /\ proc = [p \in Pids |-> "none"]
    /\ ws = [p \in Pids |-> NoStatus]
    /\ reapPC = "idle"
    /\ reapRet = -1
    /\ errsLeft = WaitErrors
    /\ nKills = 0
    /\ lastKill = <<0, 0>>
    /\ termCount = 0
    /\ left = {}
    /\ getpid = 1
    /\ env \in [PSI_CHILD : {""}, PSI_STOP_TIMEOUT : Strings(MaxTokens)]
    /\ role = "Supervisor"
    /\ ctxDone = FALSE
    /\ cancels = 0
    /\ termCh = <<>>
    /\ def \in Defaults
    /\ stopTimeout = Duration(FALSE, <<>>)
    /\ warned = FALSE
    /\ cur = NoSignal

\* stopTimeout := parseStopTimeout(def)
ParseStep ==
    /\ supPC = "parse"
    /\ LET r == parseStopTimeout(env[stopTimeoutEnv], def)
       IN /\ stopTimeout' = r.d
          /\ warned' = r.warned
    /\ supPC' = "parsed"
    /\ UNCHANGED <<initVars, exitCode, code, sigCount, getpid, env, role, ctxDone, cancels,
                   termCh, def, cur>>

NextParse == ParseStep

ParseSpec == InitParse /\ [][NextParse]_vars

\* Run called in a fresh process: any pid, any value of the marker variable
InitRun ==
    /\ supPC = "run"
    /\ exitCode = -1
    /\ childPID = 0
    /\ code = -1
    /\ done = <<>>
    /\ allSig = <<>>
    /\ sigCount = 0
    /\ startOnce = FALSE
    /\ killTimer = "nil"
    /\ armCount = 0
    /\ proc = [p \in Pids |-> "none"]
    /\ ws = [p \in Pids |-> NoStatus]
    /\ reapPC = "idle"
    /\ reapRet = -1
    /\ errsLeft = WaitErrors
    /\ nKills = 0
    /\ lastKill = <<0, 0>>
    /\ termCount = 0
    /\ left = {}
    /\ getpid \in Getpids
    /\ env \in [PSI_CHILD : ChildEnvs, PSI_STOP_TIMEOUT : {<<>>}]
    /\ role = "none"
    /\ ctxDone = FALSE
    /\ cancels = 0
    /\ termCh = <<>>
    /\ def = defaultStopTimeout
    /\ stopTimeout = defaultStopTimeout
    /\ warned = FALSE
    /\ cur = NoSignal

\* Run in each role; the Supervisor is followed up to the spawn
NextRun ==
    \/ Run
    \/ Start
    \/ WorkerSignal
    \/ WorkerCancel
    \/ SubmainReturn

RunSpec == InitRun /\ [][NextRun]_vars

\* the worker with the scheduling the code relies on: the Go scheduler keeps
\* running the goroutine that ranges over termCh
FairRunSpec == RunSpec /\ WF_vars(WorkerCancel)

\* the steps of the goroutine running runAsInit, and of the reaper goroutine
Supervisor == SelectSignal \/ SelectDone \/ DrainStep \/ SelectTimer \/ KillWaitDone
Reaper == ReapStep \/ ReapSleepOver \/ ReaperSend

\* Spec with the scheduling the code relies on: the Go scheduler keeps running
\* a goroutine that can take a step, and the runtime fires an armed timer.
FairSpec ==
    /\ Spec
    /\ WF_vars(Supervisor)
    /\ WF_vars(Reaper)
    /\ WF_vars(TimerExpire)

(* ---------------- properties ---------------- *)

Spawned == childPID # 0
TermNums == {SIGINT, SIGTERM, SIGQUIT, SIGHUP}
\* the step in which the select loop takes a signal from allSig
TakesSignal == supPC = "select" /\ allSig # <<>> /\ allSig' = Tail(allSig)

\* C1: after a successful spawn the supervisor exits only once the reaper has
\* sent the managed child's outcome on done and the supervisor has received
\* it; by then the managed child has been collected.
C1_NoExitBeforeOutcome ==
    (supPC = "exited" /\ Spawned) =>
        /\ reapPC = "sent"
        /\ done = <<>>
        /\ code = reapRet
        /\ proc[childPID] = "reaped"

\* an exit after a wait error, a forwarded signal and the forced kill
C1_Witness ==
    /\ supPC = "exited"
    /\ Spawned
    /\ errsLeft = {}
    /\ nKills >= 2
    /\ killTimer = "drained"

\* C2: on either exit path the exit status is the translation of the managed
\* child's wait status: its code if it exited, 128 + the signal if it was
\* killed by one.
C2_ExitStatusIsChildOutcome ==
    (supPC = "exited" /\ Spawned) =>
        /\ ws[childPID].kind \in {"exited", "signaled"}
        /\ ws[childPID].kind = "exited" => exitCode = ws[childPID].val
        /\ ws[childPID].kind = "signaled" => exitCode = 128 + ws[childPID].val

\* the timer path taken although the child had exited by itself with 7, while
\* another descendant has terminated with a different status
C2_Witness ==
    /\ supPC = "exited"
    /\ killTimer = "drained"
    /\ Spawned
    /\ ws[childPID] = Exited(7)
    /\ exitCode = 7
    /\ \E p \in Pids : p # childPID /\ ws[p] = Signaled(SIGKILL)

\* C3: a step that takes a signal other than SIGCHLD from allSig makes exactly
\* one kill call, to the managed child's process group (-childPID) with that
\* signal; a step that takes SIGCHLD makes no kill call and leaves the timer
\* alone; no other kill call is made with a catchable signal.
C3_ForwardsAllButSIGCHLD ==
    /\ [](lastKill[2] # SIGCHLD /\ (nKills > 0 => lastKill[1] = -childPID))
    /\ [][TakesSignal =>
            IF Head(allSig) = Sys(SIGCHLD)
            THEN UNCHANGED <<nKills, lastKill, killTimer, armCount, startOnce, proc, ws>>
            ELSE /\ nKills' = nKills + 1
                 /\ lastKill' = <<-childPID, Head(allSig).num>>]_vars
    /\ [][nKills' # nKills /\ lastKill'[2] # SIGKILL => TakesSignal]_vars

\* SIGCHLD and SIGUSR1 were taken: only SIGUSR1 was forwarded, the timer is unarmed
C3_Witness ==
    /\ supPC = "select"
    /\ sigCount = 2
    /\ allSig = <<>>
    /\ nKills = 1
    /\ lastKill = <<-childPID, SIGUSR1>>
    /\ killTimer = "nil"
    /\ Spawned

\* C4: the timer is started exactly once, by the first terminate-class signal
\* (INT, TERM, QUIT, HUP) taken; a later terminate-class signal is forwarded
\* to the group but the countdown is neither restarted nor re-armed.
C4_ArmedOnce ==
    /\ [](/\ armCount = (IF termCount > 0 THEN 1 ELSE 0)
          /\ (killTimer = "nil") = (termCount = 0)
          /\ \A s \in Catchable : isTerminateSignal(s) = (s.num \in TermNums))
    /\ [][killTimer # "nil" =>
            /\ armCount' = armCount
            /\ \/ killTimer' = killTimer
               \/ killTimer = "running" /\ killTimer' = "fired"
               \/ killTimer = "fired" /\ killTimer' = "drained"]_vars
    /\ [][TakesSignal /\ Head(allSig).num \in TermNums /\ termCount > 0 =>
            /\ nKills' = nKills + 1
            /\ lastKill' = <<-childPID, Head(allSig).num>>]_vars

\* a second terminate-class signal was taken after the timer had expired
C4_Witness ==
    /\ termCount >= 2
    /\ armCount = 1
    /\ killTimer = "fired"
    /\ lastKill[2] \in TermNums

\* C5: SIGKILL is sent only by the step that takes the fired timer's value;
\* that step leaves the supervisor blocked on done; from there it exits only
\* by receiving the outcome of the collected child; a timer that has fired
\* and was taken never fires again, so the forced kill is sent at most once.
C5_ForcedKillThenWait ==
    /\ [](supPC = "killwait" => killTimer = "drained" /\ lastKill = <<-childPID, SIGKILL>>)
    /\ [][nKills' # nKills /\ lastKill'[2] = SIGKILL =>
            /\ supPC = "select" /\ supPC' = "killwait"
            /\ killTimer = "fired" /\ killTimer' = "drained"
            /\ lastKill'[1] = -childPID]_vars
    /\ [][killTimer = "fired" /\ killTimer' # "fired" =>
            nKills' = nKills + 1 /\ lastKill' = <<-childPID, SIGKILL>>]_vars
    /\ [][killTimer = "drained" => killTimer' = "drained"]_vars
    /\ [][supPC = "killwait" /\ supPC' # "killwait" =>
            /\ supPC' = "exited"
            /\ done # <<>>
            /\ exitCode' = Head(done)
            /\ proc[childPID] = "reaped"]_vars

\* the supervisor is blocked on done after the forced kill; the reaper has
\* not collected the killed child yet
C5_Witness ==
    /\ supPC = "killwait"
    /\ done = <<>>
    /\ reapPC = "wait"
    /\ proc[childPID] = "zombie"
    /\ ws[childPID] = Signaled(SIGKILL)

\* C6: once the supervisor has taken a terminate-class signal it eventually
\* exits, whatever the child does with the signals forwarded to it.
C6_BoundedShutdown == (termCount > 0) ~> (supPC = "exited")

\* the child ignored two terminate-class signals and the supervisor has exited
\* after the forced kill
C6_Witness ==
    /\ supPC = "exited"
    /\ termCount >= 2
    /\ killTimer = "drained"
    /\ ws[childPID] = Signaled(SIGKILL)

\* C7: if the managed child is still running when the stop timeout's event is
\* taken, the forced kill terminates it by SIGKILL, that is the status the
\* reaper collects, and the supervisor exits with 128 + 9 = 137.
C7_EscalationExit137 ==
    /\ [][supPC = "select" /\ supPC' = "killwait" /\ proc[childPID] = "running" =>
            /\ termCount > 0
            /\ proc'[childPID] = "zombie"
            /\ ws'[childPID] = Signaled(SIGKILL)]_vars
    /\ [][Spawned /\ ws[childPID] = Signaled(SIGKILL) =>
            ws'[childPID] = Signaled(SIGKILL)]_vars
    /\ []((supPC = "exited" /\ Spawned /\ ws[childPID] = Signaled(SIGKILL)) =>
            exitCode = 137 /\ exitCode = 128 + SIGKILL)

\* the supervisor has exited with 137 after the forced kill
C7_Witness ==
    /\ supPC = "exited"
    /\ exitCode = 137
    /\ termCount > 0
    /\ lastKill = <<-childPID, SIGKILL>>

\* C8 as stated: every descendant that terminated while the managed child was
\* not yet collected has been collected by the time the supervisor exits.
C8_NoZombieAtExit == supPC = "exited" => left = {}

\* C8, amended: while the managed child is not yet collected, a descendant that
\* has terminated is eventually collected, by the reap loop or, when the loop
\* returned first, by the non-blocking sweep of the child-exit path, unless
\* the supervisor takes the forced-kill path, which exits without a sweep; an
\* exit through the child-exit path leaves no such zombie.
C8_ZombiesCollectedUnlessForcedKill ==
    /\ []((supPC = "exited" /\ Spawned /\ killTimer # "drained") => left = {})
    /\ \A p \in Pids :
        (Spawned /\ proc[p] = "zombie" /\ proc[childPID] # "reaped")
            ~> \/ proc[p] = "reaped"
               \/ supPC = "killwait"
               \/ supPC = "exited" /\ killTimer = "drained"

\* the reap loop has returned and left a zombie, which the sweep is about to collect
C8_Witness ==
    /\ supPC = "drain"
    /\ left # {}
    /\ killTimer # "drained"

\* C9: reapUntilChildExit(target), called with a child as target, returns only
\* once the target is collected and returns the translation of the target's
\* wait status; a step that collects another child continues the loop and
\* returns nothing.
C9_ReapReturnsTargetStatus ==
    /\ []((reapPC = "returned" /\ proc[childPID] # "none") =>
            /\ proc[childPID] = "reaped"
            /\ ws[childPID].kind = "exited" => reapRet = ws[childPID].val
            /\ ws[childPID].kind = "signaled" => reapRet = 128 + ws[childPID].val)
    /\ [][(\E p \in Pids \ {childPID} : proc[p] # "reaped" /\ proc'[p] = "reaped") =>
            /\ reapPC = "wait" /\ reapPC' = "wait"
            /\ reapRet' = reapRet]_vars

\* the target exited 7 and was returned first; the other child, which exited 0,
\* is still a zombie
C9_Witness ==
    /\ supPC = "test"
    /\ reapPC = "returned"
    /\ reapRet = 7
    /\ ws[childPID] = Exited(7)
    /\ \E p \in Pids : p # childPID /\ proc[p] = "zombie" /\ ws[p] = Exited(0)

\* C10 as stated: when the reap routine returns, every non-targeted child has
\* been collected.
C10_OthersCollectedAtReturn ==
    (reapPC = "returned" /\ proc[childPID] # "none") =>
        \A p \in Pids \ {childPID} : proc[p] \in {"none", "reaped"}

\* C10, amended: when the reap routine returns, the target has been collected;
\* a non-targeted child has been collected (nothing of it is kept) only if it
\* had terminated and a wait of the loop returned it before the target;
\* the loop collects nothing after it returned, so a non-targeted child that
\* was a zombie or running when the target was returned stays uncollected.
C10_OthersCollectedOnlyBeforeTarget ==
    /\ []((reapPC = "returned" /\ proc[childPID] # "none") =>
            /\ proc[childPID] = "reaped"
            /\ left \subseteq Zombies \ {childPID}
            /\ \A p \in Pids \ {childPID} : proc[p] = "reaped" => ws[p] = NoStatus)
    /\ [][\A p \in Pids : (proc[p] # "reaped" /\ proc'[p] = "reaped") =>
            proc[p] = "zombie" /\ reapPC = "wait"]_vars
    /\ [][reapPC = "returned" => reapPC' = "returned" /\ left' = left]_vars

\* the other child was collected as a side effect before the target returned 7
C10_Witness ==
    /\ supPC = "test"
    /\ reapPC = "returned"
    /\ reapRet = 7
    /\ \E p \in Pids : p # childPID /\ proc[p] = "reaped"

\* the marker is present when PSI_CHILD has the fixed value "1"
MarkerPresent == env[childEnvKey] = childEnvVal

\* C11: the role taken is given by (pid = 1, marker present) alone: without
\* the marker Direct when the pid is not 1 and Supervisor when it is, with the
\* marker Worker whatever the pid; a process with the marker never spawns a
\* child; the role, once taken, does not change.
C11_RoleSelection ==
    /\ [](role # "none" =>
            role = (CASE getpid # 1 /\ ~MarkerPresent -> "Direct"
                      [] getpid # 1 /\ MarkerPresent -> "Worker"
                      [] getpid = 1 /\ ~MarkerPresent -> "Supervisor"
                      [] getpid = 1 /\ MarkerPresent -> "Worker"))
    /\ [](MarkerPresent => childPID = 0 /\ supPC \notin {"starting", "select"})
    /\ [][role # "none" => role' = role]_vars
    /\ [][role = "none" /\ role' # "none" => supPC = "run" /\ supPC' # "run"]_vars

\* PID 1 with the marker has run as the worker, to the end, without a spawn
C11_Witness ==
    /\ getpid = 1
    /\ MarkerPresent
    /\ role = "Worker"
    /\ supPC = "exited"
    /\ childPID = 0

\* C12: in the worker the context is cancelled by the first termination-class
\* signal the goroutine takes from termCh and by nothing else: it is not
\* cancelled before, it is cancelled after, it stays cancelled, and a later
\* signal is taken with no other effect: the worker neither exits nor
\* crashes because of it. A signal that has arrived is eventually taken,
\* unless the process exits first.
C12_CancelledOnce ==
    /\ [](ctxDone = (cancels > 0) /\ (sigCount = 0 => ~ctxDone))
    /\ [][ctxDone => ctxDone']_vars
    /\ [][cancels' # cancels =>
            /\ termCh # <<>> /\ termCh' = Tail(termCh)
            /\ ctxDone'
            /\ supPC' = supPC /\ exitCode' = exitCode /\ code' = code]_vars
    /\ (termCh # <<>>) ~> (ctxDone \/ supPC = "exited")

\* two signals were taken; the context is cancelled and the worker still runs
C12_Witness ==
    /\ role = "Worker"
    /\ supPC = "worker"
    /\ cancels = 2
    /\ termCh = <<>>
    /\ ctxDone

\* C13: in the Direct and Worker roles the process exits only by the return
\* of submain, and with a return value in 0..255 its exit status is that
\* value; the arrival of a signal and its handling by the cancelling goroutine
\* never end the process.
C13_ExitIsReturnValue ==
    /\ []((supPC = "exited" /\ role \in {"Direct", "Worker"}) =>
            /\ code \in Rets
            /\ code \in 0..255 => exitCode = code)
    /\ [][supPC' # supPC /\ supPC \in {"direct", "worker"} =>
            /\ supPC' = "exited"
            /\ code' # code
            /\ UNCHANGED <<termCh, sigCount, ctxDone, cancels>>]_vars
    /\ [][termCh' # termCh \/ sigCount' # sigCount \/ ctxDone' # ctxDone =>
            supPC' = supPC /\ exitCode' = exitCode]_vars

\* the worker has exited with 99, returned by submain after the cancellation
C13_Witness ==
    /\ role = "Worker"
    /\ supPC = "exited"
    /\ ctxDone
    /\ code = 99
    /\ exitCode = 99

\* the value of PSI_STOP_TIMEOUT without the white space around it
TrimmedVal == TrimSpace(env[stopTimeoutEnv])
\* n seconds, n given by its decimal digits
Seconds(ds) == Duration(FALSE, IF Norm(ds) = <<>> THEN <<>> ELSE Norm(ds) \o Zeros(9))
\* the number a string of digits denotes
NumberOf(str) == Norm([i \in 1..Len(str) |-> DigitVal(str[i])])
\* the largest number of whole seconds a time.Duration holds
MaxSeconds == <<9, 2, 2, 3, 3, 7, 2, 0, 3, 6>>

\* C14 as stated, for a value of only decimal digits: the result is that many
\* seconds.
C14_DigitsAreSeconds ==
    (supPC = "parsed" /\ isAllDigits(TrimmedVal)) =>
        stopTimeout = Seconds(NumberOf(TrimmedVal)) /\ ~warned

\* C14, amended: an empty or blank value gives the default without a warning;
\* a value of only decimal digits gives that many seconds if they fit a
\* duration (at most 9223372036), and otherwise the default with a warning;
\* "1m15s" gives 75 s and "1m" gives 60 s; a value with a leading minus sign,
\* inner white space or a letter that is no unit gives the default with a
\* warning; a warning is logged exactly when a non-blank value is replaced by
\* the default; the result is negative only if the default is.
C14_ParseStopTimeout ==
    supPC = "parsed" =>
        /\ TrimmedVal = <<>> => stopTimeout = def /\ ~warned
        /\ isAllDigits(TrimmedVal) =>
            IF Greater(NumberOf(TrimmedVal), MaxSeconds)
            THEN stopTimeout = def /\ warned
            ELSE stopTimeout = Seconds(NumberOf(TrimmedVal)) /\ ~warned
        /\ TrimmedVal = <<"1", "m", "1", "5", "s">> => stopTimeout = Seconds(<<7, 5>>) /\ ~warned
        /\ TrimmedVal = <<"1", "m">> => stopTimeout = Seconds(<<6, 0>>) /\ ~warned
        /\ TrimmedVal = <<"1", "5", "m", "s">> =>
            stopTimeout = Duration(FALSE, <<1, 5>> \o Zeros(6)) /\ ~warned
        /\ (TrimmedVal # <<>> /\ \/ Head(TrimmedVal) = "-"
                                 \/ \E i \in 1..Len(TrimmedVal) : TrimmedVal[i] \in {" ", "b"}) =>
            stopTimeout = def /\ warned
        /\ warned => stopTimeout = def /\ TrimmedVal # <<>>
        /\ ~warned /\ TrimmedVal # <<>> => ~IsNegative(stopTimeout)
        /\ ~IsNegative(def) => ~IsNegative(stopTimeout)

\* "1m15s" was parsed to 75 s although the default is negative
C14_Witness ==
    /\ supPC = "parsed"
    /\ env[stopTimeoutEnv] = <<"1", "m", "1", "5", "s">>
    /\ IsNegative(def)
    /\ stopTimeout = Seconds(<<7, 5>>)
    /\ ~warned

\* C15: when the select case reaches its arm-timer check for a signal, that
\* signal has already been sent to the process group; the countdown is
\* started only by that check, after the forwarding and without another kill
\* call; signals leave allSig at its head and enter at its tail, and the one
\* taken is the one sent, so they are forwarded in the order received.
C15_ForwardBeforeArmCheck ==
    /\ [](supPC = "armcheck" =>
            /\ cur \in Signals \ {Sys(SIGCHLD)}
            /\ nKills > 0
            /\ lastKill = <<-childPID, cur.num>>)
    /\ [](supPC # "armcheck" => cur = NoSignal)
    /\ [][armCount' # armCount \/ (killTimer = "nil" /\ killTimer' # "nil") =>
            /\ supPC = "armcheck"
            /\ isTerminateSignal(cur)
            /\ lastKill = <<-childPID, cur.num>>
            /\ nKills' = nKills
            /\ armCount = 0 /\ killTimer = "nil" /\ killTimer' = "running"]_vars
    /\ [][allSig' # allSig =>
            \/ \E s \in Signals : allSig' = Append(allSig, s)
            \/ /\ supPC = "select"
               /\ allSig # <<>>
               /\ allSig' = Tail(allSig)
               /\ IF Head(allSig) = Sys(SIGCHLD)
                  THEN supPC' = "select" /\ nKills' = nKills
                  ELSE /\ supPC' = "armcheck"
                       /\ cur' = Head(allSig)
                       /\ nKills' = nKills + 1
                       /\ lastKill' = <<-childPID, Head(allSig).num>>]_vars

\* the first terminate-class signal has been forwarded and the child has died
\* of it, the arm-timer check is still to come and the timer is unarmed
C15_Witness ==
    /\ supPC = "armcheck"
    /\ isTerminateSignal(cur)
    /\ killTimer = "nil"
    /\ termCount = 1
    /\ lastKill = <<-childPID, cur.num>>
    /\ ws[childPID] = Signaled(cur.num)

\* the timer is armed and the supervisor has not exited
ShuttingDown == Spawned /\ killTimer # "nil" /\ supPC # "exited"

\* C16: while the timer is armed, whether it is running, has fired or has
\* been taken, a step in which the select loop takes a signal does what it
\* does in Running: SIGCHLD is dropped, any other signal is sent to the
\* process group by one kill call, and the loop goes on selecting; the timer
\* is not touched by it. Outside the loop (the sweep, the wait after the
\* forced kill) signals only queue up in allSig.
C16_ForwardingWhileShuttingDown ==
    /\ [][TakesSignal /\ ShuttingDown =>
            /\ supPC' = "select"
            /\ killTimer' = killTimer /\ armCount' = armCount
            /\ IF Head(allSig) = Sys(SIGCHLD)
               THEN nKills' = nKills /\ lastKill' = lastKill
               ELSE nKills' = nKills + 1 /\ lastKill' = <<-childPID, Head(allSig).num>>]_vars
    /\ [][ShuttingDown /\ allSig' # allSig /\ ~TakesSignal =>
            \E s \in Signals : allSig' = Append(allSig, s)]_vars
    /\ [](ShuttingDown => supPC \in {"select", "drain", "killwait"})

\* the timer was armed and has fired; the signal taken last, one outside the
\* terminate class, was forwarded
C16_Witness ==
    /\ supPC = "select"
    /\ killTimer = "fired"
    /\ termCount = 1
    /\ sigCount = 2
    /\ allSig = <<>>
    /\ lastKill = <<-childPID, SIGUSR1>>

\* C17: a wait that reports ECHILD (the caller has no child) ends the reap
\* loop with the value 0; the loop ends in no other way than that or by
\* collecting the target, so neither EINTR nor an unexpected error ends it or
\* gives a value: after an unexpected error the loop sleeps and waits again.
C17_EchildReturnsZero ==
    /\ [][reapPC = "wait" /\ reapPC' # "wait" /\ ~HasChildren =>
            reapPC' = "returned" /\ reapRet' = 0]_vars
    /\ [][reapPC # "returned" /\ reapPC' = "returned" =>
            /\ reapPC = "wait"
            /\ \/ ~HasChildren /\ reapRet' = 0 /\ UNCHANGED <<proc, ws>>
               \/ proc[childPID] = "zombie" /\ proc'[childPID] = "reaped"]_vars
    /\ [][errsLeft' # errsLeft =>
            /\ reapPC = "wait" /\ reapPC' = "sleep"
            /\ reapRet' = reapRet
            /\ UNCHANGED <<proc, ws>>]_vars
    /\ [][reapPC = "sleep" /\ reapPC' # "sleep" => reapPC' = "wait" /\ reapRet' = reapRet]_vars
    /\ [](reapPC \in {"wait", "sleep"} => reapRet = -1)

\* the target was not a child of the caller: after an unexpected error was
\* retried and the only child was collected, ECHILD ended the loop with 0
C17_Witness ==
    /\ supPC = "test"
    /\ reapPC = "returned"
    /\ reapRet = 0
    /\ proc[childPID] = "none"
    /\ errsLeft = {}
    /\ \E p \in Pids : proc[p] = "reaped"

\* C18: the sweep never blocks: while it runs it can always take its next
\* step, whether children have terminated or not and whether or not live
\* children remain, and it returns; when it has returned, no child that had
\* terminated before the call is left uncollected; it collects terminated
\* children only and leaves the running ones alone.
C18_SweepCollectsAndReturns ==
    /\ [](supPC = "drain" => ENABLED DrainStep)
    /\ (supPC = "drain") ~> (supPC = "exited")
    /\ [](left \subseteq Zombies)
    /\ [](supPC = "exited" => left = {})
    /\ [][\A p \in Pids : proc'[p] = "reaped" /\ proc[p] # "reaped" =>
            proc[p] = "zombie" /\ supPC = "drain" /\ supPC' = "drain"]_vars

\* the sweep has returned after collecting two children that had terminated
\* before the call
C18_Witness ==
    /\ supPC = "exited"
    /\ role = "Supervisor"
    /\ reapPC = "idle"
    /\ \A p \in Pids : proc[p] = "reaped"
    /\ \E p \in Pids : p # childPID /\ ws[p] = NoStatus

\* the supervisor's state: Starting until the spawn, Running until the timer
\* is armed, ShuttingDown from then on, Terminated once it has exited
SupState ==
    IF supPC = "starting" THEN "Starting"
    ELSE IF supPC = "exited" THEN "Terminated"
    ELSE IF killTimer # "nil" THEN "ShuttingDown"
    ELSE "Running"
\* the states that may follow a state
After(st) ==
    CASE st = "Starting" -> {"Starting", "Running", "Terminated"}
      [] st = "Running" -> {"Running", "ShuttingDown", "Terminated"}
      [] st = "ShuttingDown" -> {"ShuttingDown", "Terminated"}
      [] st = "Terminated" -> {"Terminated"}

\* C19: the supervisor's state only moves forward: from Starting to Running
\* by the one spawn, from Running to ShuttingDown by arming the timer, which
\* is never disarmed, and to Terminated, which it never leaves; the managed
\* child is spawned once and, once terminated, never runs again; after a
\* failed spawn the supervisor has exited with status 1 and has forwarded no
\* signal, sent no kill and reaped nothing.
C19_StateMovesForward ==
    /\ [][SupState' \in After(SupState)]_vars
    /\ [][SupState = "Starting" /\ SupState' = "Terminated" => ~Spawned']_vars
    /\ [][killTimer # "nil" => killTimer' # "nil" /\ armCount' = armCount]_vars
    /\ [][supPC = "exited" => supPC' = "exited" /\ exitCode' = exitCode]_vars
    /\ [][childPID' # childPID =>
            /\ childPID = 0
            /\ supPC = "starting" /\ supPC' = "select"
            /\ proc'[childPID'] = "running"]_vars
    /\ [][Spawned /\ proc[childPID] # "running" => proc'[childPID] # "running"]_vars
    /\ []((supPC = "exited" /\ ~Spawned) =>
            /\ exitCode = 1
            /\ nKills = 0
            /\ killTimer = "nil"
            /\ reapPC = "idle"
            /\ \A p \in Pids : proc[p] = "none")

\* the supervisor has gone through all four states: it spawned the child,
\* armed the timer and exited by the forced-kill path
C19_Witness ==
    /\ SupState = "Terminated"
    /\ Spawned
    /\ armCount = 1
    /\ killTimer = "drained"
    /\ proc[childPID] = "reaped"

\* C20: the channel of the nil timer is never ready; the timer leaves nil
\* only in a step that takes a terminate-class signal, and SIGUSR1, SIGUSR2
\* and SIGCHLD are not of that class; so as long as the supervisor has taken
\* no terminate-class signal the timer is nil, no SIGKILL has been sent, the
\* supervisor is not in the forced-kill path, and if it exits it does so
\* from the sweep of the child-exit path.
C20_ForcedKillOnlyByEscalation ==
    /\ [](/\ ~killTimerC("nil")
          /\ \A n \in {SIGUSR1, SIGUSR2, SIGCHLD} : ~isTerminateSignal(Sys(n)))
    /\ [](termCount = 0 =>
            /\ killTimer = "nil"
            /\ armCount = 0
            /\ lastKill[2] # SIGKILL
            /\ supPC # "killwait")
    /\ [][killTimer = "nil" /\ killTimer' # "nil" =>
            /\ TakesSignal
            /\ Head(allSig).num \in TermNums
            /\ killTimer' = "running"]_vars
    /\ [][lastKill'[2] = SIGKILL /\ nKills' # nKills => termCount > 0 /\ killTimer = "fired"]_vars
    /\ [][supPC # "exited" /\ supPC' = "exited" /\ Spawned /\ termCount = 0 =>
            supPC = "drain" /\ exitCode' = code]_vars

\* two signals outside the terminate class were taken, one was forwarded, and
\* the supervisor has exited by the child-exit path with the timer unarmed
C20_Witness ==
    /\ supPC = "exited"
    /\ Spawned
    /\ sigCount = 2
    /\ allSig = <<>>
    /\ termCount = 0
    /\ nKills >= 1
    /\ killTimer = "nil"

====
